---- MODULE Spec2Model ----
(***************************************************************************)
(* A model of crude-tts.py: dialogue segmentation, speech markers on the   *)
(* timeline, mouth-shape selection and the per-character frame walk that   *)
(* keyframes the mouth and the subtitles.                                  *)
(*                                                                         *)
(* Text is a sequence of one-character strings. A shape key or a marker is *)
(* known by its name, again a sequence of characters.                      *)
(*                                                                         *)
(* Spec is the scene: a user edits the dialogue, the timeline and the      *)
(* markers and runs add_markers or add_speech_to_markers, each run one     *)
(* step. SpecSplit, SpecShape and SpecWalk call one function on every      *)
(* small input: split_dialogue_to_segments, select_shape_key and the body  *)
(* of the loop over segments of add_speech_to_markers.                     *)
(*                                                                         *)
(* add_speech_to_markers runs with audio=False, as main() calls it, so the *)
(* sequencer is left out. The look of a text object (material, transform)  *)
(* and the selection made at the end of a run are left out as well. Of a   *)
(* shape key the model keeps the keyframes, each with the value the key    *)
(* had when it was inserted.                                               *)
(***************************************************************************)
EXTENDS Integers, Sequences, FiniteSets, TLC

VARIABLES
    dialogue,          \* the dialogue string handed to add_markers / add_speech_to_markers
    frame_end,         \* bpy.context.scene.frame_end
    timeline_markers,  \* bpy.context.scene.timeline_markers, in creation order
    mouth_exists,      \* whether bpy.data.objects.get('mouth') finds an object
    key_blocks,        \* mouth.data.shape_keys.key_blocks: the shape key names, in order
    has_collection,    \* whether 'subtitles' is in bpy.data.collections
    subtitles,         \* the text objects of the 'subtitles' collection
    keyframes,         \* the keyframes on the mouth's shape keys: records [key, frame, value]
    workspace,         \* bpy.context.window.workspace
    run,               \* the operation that has just run and the error it ended with
    edits,             \* how many edits the user has made to the scene
    args,              \* the arguments of a single function under check
    result             \* what that function returned; called is FALSE before the call

vars == << dialogue, frame_end, timeline_markers, mouth_exists, key_blocks,
           has_collection, subtitles, keyframes, workspace, run, edits, args,
           result >>

scene == << dialogue, frame_end, timeline_markers, mouth_exists,
            has_collection, subtitles, keyframes, workspace, run, edits >>

----------------------------------------------------------------------------
(* Bounds of the model *)

MaxLen == 6        \* longest dialogue given to split_dialogue_to_segments alone
MaxSegLen == 3     \* longest segment given to the character walk alone
MaxBudget == 16    \* largest segment_end - segment_start given to the walk alone
MaxKeys == 3       \* most shape keys on the mouth when select_shape_key is checked alone
MaxChunks == 2     \* most phrases a dialogue of the scene is built from
MaxFrameEnd == 3   \* largest scene.frame_end
MaxMargin == 1     \* largest frame_margins
MaxFrame == 2      \* latest frame a user moves a marker to
MaxEdits == 2      \* most edits a user makes to the scene

----------------------------------------------------------------------------
(* Characters and strings *)

Punctuation == {".", ",", "!", "?"}

LineEnders == {".", ",", "!", "?", "\n"}

Alphabet == {"a", "b", "c", "d", "e", "f", "g", "h", "i", "j", "k", "l", "m",
             "n", "o", "p", "q", "r", "s", "t", "u", "v", "w", "x", "y", "z"}

\* what str.strip() removes
Whitespace == {" ", "\n", "\t", "\r", "\f"}

\* str.lower() on the characters the model uses
lower(char) ==
    CASE char = "A" -> "a"
      [] char = "S" -> "s"
      [] OTHER -> char

Strings(chars, n) == UNION {[1..k -> chars] : k \in 0..n}

RECURSIVE lstrip(_)
lstrip(s) ==
    IF s # <<>> /\ Head(s) \in Whitespace THEN lstrip(Tail(s)) ELSE s

RECURSIVE rstrip(_)
rstrip(s) ==
    IF s # <<>> /\ s[Len(s)] \in Whitespace
    THEN rstrip(SubSeq(s, 1, Len(s) - 1))
    ELSE s

strip(s) == rstrip(lstrip(s))

RECURSIVE Concat(_)
Concat(ss) == IF ss = <<>> THEN <<>> ELSE Head(ss) \o Concat(Tail(ss))

NonWhitespace(s) == SelectSeq(s, LAMBDA c : c \notin Whitespace)

----------------------------------------------------------------------------
(* split_dialogue_to_segments *)

max_letters_default == 20

\* the cut test on the buffer after char was appended
line_ended(char, segment, max_letters) ==
    char \in LineEnders /\ 4 * Len(segment) > max_letters

word_ended(char, segment, max_letters) ==
    char = " " /\ Len(segment) > max_letters

\* a cut that leaves the separator out of the segment
cut_segment_without_separator(segment) == strip(SubSeq(segment, 1, Len(segment) - 1))

\* what a cut appends to the segment list
cut_segment(segment) == strip(segment)

\* what the end of the scan appends for the trailing buffer
final_segments(segment) == IF segment # <<>> THEN <<segment>> ELSE <<>>

RECURSIVE split_loop(_, _, _, _, _)
split_loop(dlg, i, segments, segment, max_letters) ==
    IF i > Len(dlg)
    THEN segments \o final_segments(segment)
    ELSE LET char == dlg[i]
             buf == Append(segment, char)
         IN IF line_ended(char, buf, max_letters) \/ word_ended(char, buf, max_letters)
            THEN split_loop(dlg, i + 1, Append(segments, cut_segment(buf)), <<>>, max_letters)
            ELSE split_loop(dlg, i + 1, segments, buf, max_letters)

split_dialogue_to_segments(dlg, max_letters) ==
    split_loop(dlg, 1, <<>>, <<>>, max_letters)

----------------------------------------------------------------------------
(* The scene as a fresh file has it: no markers, no subtitles, no keyframes *)

Basis == <<"B", "a", "s", "i", "s">>
KeyA == <<"#", "a">>

SceneInit ==
    /\ dialogue = <<>>
    /\ frame_end = 250
    /\ timeline_markers = <<>>
    /\ mouth_exists = TRUE
    /\ has_collection = FALSE
    /\ subtitles = <<>>
    /\ keyframes = {}
    /\ workspace = "Scripting"
    /\ run = [op |-> "none", error |-> "none"]
    /\ edits = 0

----------------------------------------------------------------------------
(* split_dialogue_to_segments alone, on every short dialogue *)

SplitChars == {"a", ".", " ", "\n"}
SplitMaxLetters == {0, 4, 8, max_letters_default}

InitSplit ==
    /\ SceneInit
    /\ key_blocks = <<Basis, KeyA>>
    /\ args \in [dialogue : Strings(SplitChars, MaxLen), max_letters : SplitMaxLetters]
    /\ result = [called |-> FALSE]

CallSplit ==
    /\ ~result.called
    /\ result' = [called |-> TRUE, segments |-> split_dialogue_to_segments(args.dialogue, args.max_letters)]
    /\ UNCHANGED << scene, key_blocks, args >>

SpecSplit == InitSplit /\ [][CallSplit]_vars

\* C1: the segments, each trimmed and concatenated in order, hold exactly the
\* non-whitespace characters of the dialogue, in the dialogue's order
C1_SegmentsKeepContent ==
    result.called =>
        NonWhitespace(Concat([i \in 1..Len(result.segments) |-> strip(result.segments[i])]))
            = NonWhitespace(args.dialogue)

\* a dialogue that was cut at least once and has a trailing segment
C1_Witness ==
    /\ result.called
    /\ Len(result.segments) >= 2
    /\ \E i \in 1..Len(args.dialogue) : args.dialogue[i] = " "
    /\ result.segments[Len(result.segments)] # strip(result.segments[Len(result.segments)])

\* C9: no segment returned by split_dialogue_to_segments is empty or made of
\* whitespace alone
C9_NoEmptySegment ==
    result.called =>
        \A i \in 1..Len(result.segments) : NonWhitespace(result.segments[i]) # <<>>
----------------------------------------------------------------------------
(* Shape keys of the mouth *)

startswith(name, prefix) ==
    Len(name) >= Len(prefix) /\ SubSeq(name, 1, Len(prefix)) = prefix

\* Python's "sub in text" on strings
contains(text, sub) ==
    \E i \in 0..(Len(text) - Len(sub)) : SubSeq(text, i + 1, i + Len(sub)) = sub

get_mouth_shape_keys(blocks) ==
    SelectSeq(blocks, LAMBDA name : startswith(name, <<"#">>))

\* random.choice(choices): pick is the draw, any number from 1 up
random_choice(choices, pick) == choices[((pick - 1) % Len(choices)) + 1]

\* the shape keys select_shape_key looks a match for the letter up in
matching_shape_keys(blocks, letter) ==
    SelectSeq(get_mouth_shape_keys(blocks), LAMBDA name : contains(name, <<letter>>))

\* the list the fallback of select_shape_key draws from when nothing matches
fallback_shape_keys(blocks) == blocks

\* the shape select_shape_key returns; random.choice raises IndexError on an
\* empty list, which the callers of this operator test for with can_select
select_shape_key(blocks, letter, pick) ==
    IF matching_shape_keys(blocks, letter) # <<>>
    THEN random_choice(matching_shape_keys(blocks, letter), pick)
    ELSE random_choice(fallback_shape_keys(blocks), pick)

can_select(blocks, letter) ==
    matching_shape_keys(blocks, letter) # <<>> \/ fallback_shape_keys(blocks) # <<>>

----------------------------------------------------------------------------
(* select_shape_key alone, on every small set of shape keys *)

KeyO == <<"#", "o">>
KeyMB == <<"#", "m", "b">>
KeyNames == {Basis, KeyA, KeyO, KeyMB}
ShapeLetters == {"a", "b", "o", "x", "#"}

\* shape key names are unique on a mesh
KeyBlockLists ==
    {blocks \in UNION {[1..k -> KeyNames] : k \in 0..MaxKeys} :
        \A i, j \in 1..Len(blocks) : i # j => blocks[i] # blocks[j]}

InitShape ==
    /\ SceneInit
    /\ key_blocks \in KeyBlockLists
    /\ args \in [letter : ShapeLetters]
    /\ result = [called |-> FALSE]

CallSelectShapeKey ==
    /\ ~result.called
    /\ can_select(key_blocks, args.letter)
    /\ \E pick \in 1..Len(key_blocks) :
          result' = [called |-> TRUE, error |-> "none",
                     shape |-> select_shape_key(key_blocks, args.letter, pick)]
    /\ UNCHANGED << scene, key_blocks, args >>

CallSelectShapeKeyRaises ==
    /\ ~result.called
    /\ ~can_select(key_blocks, args.letter)
    /\ result' = [called |-> TRUE, error |-> "IndexError", shape |-> <<>>]
    /\ UNCHANGED << scene, key_blocks, args >>

SpecShape == InitShape /\ [][CallSelectShapeKey \/ CallSelectShapeKeyRaises]_vars

InRegistry(blocks, shape) ==
    \E i \in 1..Len(get_mouth_shape_keys(blocks)) : get_mouth_shape_keys(blocks)[i] = shape

\* C6: with a non-empty registry of '#' shape keys, the shape select_shape_key
\* returns is one of the registry, whether a key matched the letter or not
C6_ShapeInRegistry ==
    (result.called /\ get_mouth_shape_keys(key_blocks) # <<>>) =>
        (result.error = "none" /\ InRegistry(key_blocks, result.shape))
----------------------------------------------------------------------------
(* The frame cost of a segment and the walk over its characters *)

\* a segment length that counts the pause after punctuation six times over
RECURSIVE get_segment_length_long_pause(_, _)
get_segment_length_long_pause(segment, duration_frames) ==
    IF segment = <<>> THEN 0
    ELSE duration_frames
         + (IF lower(Head(segment)) \in Punctuation
            THEN 6 * duration_frames ELSE 0)
         + get_segment_length_long_pause(Tail(segment), duration_frames)

RECURSIVE get_segment_length(_, _)
get_segment_length(segment, duration_frames) ==
    IF segment = <<>> THEN 0
    ELSE duration_frames
         + (IF lower(Head(segment)) \in Punctuation
            THEN 5 * duration_frames ELSE 0)
         + get_segment_length(Tail(segment), duration_frames)

Max(a, b) == IF a >= b THEN a ELSE b

\* frames per character of a segment given the span between two markers;
\* the caller has checked that the segment's length is not 0
fit_duration_frames(segment, segment_start, segment_end) ==
    Max(1, (segment_end - segment_start) \div get_segment_length(segment, 1))

\* an advance that forgets the pause after punctuation
advance_without_pause(char, duration_frames) == duration_frames

\* an advance that skips the characters that are neither spoken nor paused on
advance_known_only(char, duration_frames) ==
    IF char \in Alphabet \/ char = " " THEN duration_frames
    ELSE IF char \in Punctuation THEN 6 * duration_frames
    ELSE 0

\* how far one character moves current_frame
advance(char, duration_frames) ==
    duration_frames
    + (IF char \in Punctuation THEN 5 * duration_frames ELSE 0)

\* a test that lets the walk run on when it lands on segment_end exactly
went_past(current_frame, segment_end) == current_frame > segment_end

\* the test that ends the walk of a segment early
went_over(current_frame, segment_end) == current_frame >= segment_end

Keyframe(key, frame, value) == [key |-> key, frame |-> frame, value |-> value]

\* the keyframes set_rest_mouth inserts, in order
set_rest_mouth(blocks, current_frame, duration_frames) ==
    Concat([i \in 1..Len(get_mouth_shape_keys(blocks)) |->
              << Keyframe(get_mouth_shape_keys(blocks)[i], current_frame, 0),
                 Keyframe(get_mouth_shape_keys(blocks)[i], current_frame + duration_frames, 0) >>])

\* the keyframes set_mouth inserts, in order
set_mouth(blocks, char, current_frame, duration_frames, pick) ==
    << Keyframe(select_shape_key(blocks, char, pick), current_frame, 1),
       Keyframe(select_shape_key(blocks, char, pick), current_frame + duration_frames, 1) >>

\* create_text and the six keyframe_subtitle_visibility calls, in order
create_text(segment, segment_start, segment_end) ==
    [body |-> SelectSeq(segment, LAMBDA c : c # "\n"),
     visibility |-> << <<0, TRUE>>, <<1, FALSE>>, <<segment_start - 1, FALSE>>,
                       <<segment_start, TRUE>>, <<segment_end - 1, TRUE>>,
                       <<segment_end, FALSE>> >>]

\* The loop over the characters of one segment. slots records, for every
\* character the loop body ran for, the frame it started at; events are the
\* mouth keyframes inserted, in order.
RECURSIVE walk(_, _, _, _, _, _, _, _, _)
walk(segment, i, current_frame, duration_frames, segment_end, blocks, picks, slots, events) ==
    IF i > Len(segment)
    THEN [error |-> "none", slots |-> slots, events |-> events,
          current_frame |-> current_frame]
    ELSE LET char == lower(segment[i])
             rest == set_rest_mouth(blocks, current_frame, duration_frames)
             slot == [index |-> i, char |-> segment[i], start |-> current_frame,
                      duration |-> duration_frames,
                      spoken |-> char \in Alphabet]
             next_frame == current_frame + advance(char, duration_frames)
         IN IF char \in Alphabet /\ ~can_select(blocks, char)
            THEN [error |-> "IndexError", slots |-> slots, events |-> events \o rest,
                  current_frame |-> current_frame]
            ELSE LET spoken == IF char \in Alphabet
                               THEN set_mouth(blocks, char, current_frame,
                                              duration_frames, picks[i])
                               ELSE <<>>
                 IN IF went_over(next_frame, segment_end)
                    THEN [error |-> "none", slots |-> Append(slots, slot),
                          events |-> events \o rest \o spoken,
                          current_frame |-> next_frame]
                    ELSE walk(segment, i + 1, next_frame, duration_frames, segment_end,
                              blocks, picks, Append(slots, slot),
                              events \o rest \o spoken)

\* One round of the loop over the segments: the subtitle of the segment and
\* the walk over its characters between segment_start and segment_end.
speak_segment(segment, segment_start, segment_end, blocks, picks) ==
    IF get_segment_length(segment, 1) = 0
    THEN [error |-> "ZeroDivisionError", duration_frames |-> 0, texts |-> <<>>,
          slots |-> <<>>, events |-> <<>>, current_frame |-> segment_start]
    ELSE LET duration_frames == fit_duration_frames(segment, segment_start, segment_end)
             walked == walk(segment, 1, segment_start, duration_frames, segment_end,
                            blocks, picks, <<>>, <<>>)
         IN [error |-> walked.error, duration_frames |-> duration_frames,
             texts |-> << create_text(segment, segment_start, segment_end) >>,
             slots |-> walked.slots, events |-> walked.events,
             current_frame |-> walked.current_frame]

----------------------------------------------------------------------------
(* One segment between two markers, alone: every short segment, every span *)

WalkChars == {"a", "S", ".", " ", "1"}
WalkStarts == {1, 2}
WalkBlocks == <<Basis, KeyA>>

\* a segment between two markers, the second after the first
WalkArgs ==
    {[segment |-> s, segment_start |-> start, segment_end |-> start + span] :
        s \in Strings(WalkChars, MaxSegLen), start \in WalkStarts, span \in 1..MaxBudget}

InitWalk ==
    /\ SceneInit
    /\ key_blocks = WalkBlocks
    /\ args \in WalkArgs
    /\ result = [called |-> FALSE]

\* Markers are paired in creation order, not by frame: the user drags the
\* next marker onto the marker of the segment, or before it.
DragNextMarker ==
    /\ ~result.called
    /\ args.segment_end > args.segment_start
    /\ \E back \in 0..1 :
          args' = [args EXCEPT !.segment_end = args.segment_start - back]
    /\ UNCHANGED << scene, key_blocks, result >>

CallSpeakSegment ==
    /\ ~result.called
    /\ \E picks \in [1..Len(args.segment) -> 1..Len(key_blocks)] :
          result' = [called |-> TRUE,
                     out |-> speak_segment(args.segment, args.segment_start,
                                           args.segment_end, key_blocks, picks)]
    /\ UNCHANGED << scene, key_blocks, args >>

SpecWalk == InitWalk /\ [][DragNextMarker \/ CallSpeakSegment]_vars

WalkBudget == args.segment_end - args.segment_start

WalkSlots == result.out.slots

\* the frame the character after slot i starts at, or the final current_frame
\* when slot i is the last one the walk made
FrameAfter(i) ==
    IF i < Len(WalkSlots) THEN WalkSlots[i + 1].start ELSE result.out.current_frame

IsPunctuation(c) == c = "." \/ c = "," \/ c = "!" \/ c = "?"

\* neither a letter a-z (once lower-cased), nor a space, nor . , ! ?
IsOtherChar(c) == ~(lower(c) \in Alphabet) /\ c # " " /\ ~IsPunctuation(c)

\* C3: when 1 <= end - start < weighted length, the per-character duration is
\* 1, no mouth keyframe of the segment lies after segment_end and no character
\* is walked once current_frame has reached segment_end
C3_FitModeTruncates ==
    (result.called /\ 1 <= WalkBudget
       /\ WalkBudget < get_segment_length(args.segment, 1)) =>
        /\ result.out.error = "none"
        /\ result.out.duration_frames = 1
        /\ \A k \in 1..Len(result.out.events) :
              result.out.events[k].frame <= args.segment_end
        /\ \A i \in 1..Len(WalkSlots) : WalkSlots[i].start < args.segment_end

\* a segment cut short: characters were dropped and a keyframe sits on segment_end
C3_Witness ==
    /\ result.called
    /\ 1 <= WalkBudget
    /\ WalkBudget < get_segment_length(args.segment, 1)
    /\ Len(WalkSlots) < Len(args.segment)
    /\ Len(WalkSlots) >= 2
    /\ \E k \in 1..Len(result.out.events) :
          result.out.events[k].frame = args.segment_end /\ result.out.events[k].value = 1

SlotsContiguous ==
    /\ \A i \in 1..Len(WalkSlots) :
          /\ WalkSlots[i].index = i
          /\ WalkSlots[i].char = args.segment[i]
          /\ WalkSlots[i].duration = result.out.duration_frames
    /\ Len(WalkSlots) >= 1 => WalkSlots[1].start = args.segment_start
    /\ \A i \in 1..(Len(WalkSlots) - 1) :
          WalkSlots[i + 1].start =
              WalkSlots[i].start + WalkSlots[i].duration
              + (IF IsPunctuation(WalkSlots[i].char) THEN 5 * WalkSlots[i].duration ELSE 0)

\* C7 as stated: every character of a synthesized segment has its slot, and
\* the slots follow one another, a punctuation mark adding its pause
C7_EveryCharacterHasSlot ==
    (result.called /\ result.out.error = "none") =>
        (Len(WalkSlots) = Len(args.segment) /\ SlotsContiguous)

\* C7 amended: the characters walked before the truncation break are a
\* non-empty prefix of the segment, each has its slot, the slots follow one
\* another with the pause after punctuation, and characters are left without
\* a slot only when current_frame has reached segment_end
C7_WalkedCharactersHaveSlots ==
    (result.called /\ result.out.error = "none") =>
        /\ 1 <= Len(WalkSlots)
        /\ Len(WalkSlots) <= Len(args.segment)
        /\ SlotsContiguous
        /\ Len(WalkSlots) < Len(args.segment) =>
              result.out.current_frame >= args.segment_end

\* a punctuation mark followed by a walked character, and a dropped one after
C7_Witness ==
    /\ result.called
    /\ result.out.error = "none"
    /\ Len(WalkSlots) = 2
    /\ Len(args.segment) = 3
    /\ IsPunctuation(WalkSlots[1].char)
    /\ WalkSlots[2].start = args.segment_start + 6

\* C8 as stated: a character that is no letter, space or punctuation mark
\* moves current_frame by nothing and adds nothing to the weighted length
C8_OtherCharAdvancesNothing ==
    (result.called /\ result.out.error = "none") =>
        /\ \A i \in 1..Len(WalkSlots) :
              IsOtherChar(WalkSlots[i].char) => FrameAfter(i) = WalkSlots[i].start
        /\ get_segment_length(args.segment, 1)
             = get_segment_length(SelectSeq(args.segment, LAMBDA c : ~IsOtherChar(c)), 1)

\* C8 amended: such a character moves current_frame by duration_frames, as a
\* space does, and adds one unit to the weighted length
C8_OtherCharAdvancesDuration ==
    (result.called /\ result.out.error = "none") =>
        /\ \A i \in 1..Len(WalkSlots) :
              IsOtherChar(WalkSlots[i].char) =>
                  FrameAfter(i) = WalkSlots[i].start + result.out.duration_frames
        /\ get_segment_length(args.segment, 1)
             = get_segment_length(SelectSeq(args.segment, LAMBDA c : ~IsOtherChar(c)), 1)
               + Len(SelectSeq(args.segment, IsOtherChar))

\* a digit walked at two frames per character, with a character after it
C8_Witness ==
    /\ result.called
    /\ result.out.error = "none"
    /\ result.out.duration_frames >= 2
    /\ \E i \in 1..(Len(WalkSlots) - 1) : WalkSlots[i].char = "1"

\* C10: when the span is at least the weighted length of a non-empty segment,
\* every character is walked and current_frame ends at segment_start plus
\* get_segment_length(segment, duration_frames), which is not past segment_end
C10_AllocatorAgreesWithWalk ==
    (result.called /\ args.segment # <<>>
       /\ WalkBudget >= get_segment_length(args.segment, 1)) =>
        /\ result.out.error = "none"
        /\ result.out.duration_frames = WalkBudget \div get_segment_length(args.segment, 1)
        /\ Len(WalkSlots) = Len(args.segment)
        /\ result.out.current_frame
             = args.segment_start
               + get_segment_length(args.segment, result.out.duration_frames)
        /\ result.out.current_frame <= args.segment_end

\* a segment that starts with a punctuation mark, walked to its last
\* character at two frames per character, that ends before segment_end
C10_Witness ==
    /\ result.called
    /\ Len(args.segment) = 2
    /\ IsPunctuation(args.segment[1])
    /\ WalkBudget >= get_segment_length(args.segment, 1)
    /\ result.out.duration_frames = 2
    /\ Len(WalkSlots) = 2
    /\ result.out.current_frame < args.segment_end
----------------------------------------------------------------------------
(* Timeline markers *)

Marker(name, frame) == [name |-> name, frame |-> frame]

\* int(): truncation toward zero of the fraction num / den, den > 0
int(num, den) == IF num >= 0 THEN num \div den ELSE -((-num) \div den)

\* the marker set_marker creates for a segment at frame num / den
set_marker(name, num, den) == Marker(<<"#">> \o name, int(num, den))

get_segment_markers(markers) ==
    SelectSeq(markers, LAMBDA m : startswith(m.name, <<"#">>))

\* the timeline once clear_markers has run
clear_markers(markers) ==
    SelectSeq(markers, LAMBDA m : ~startswith(m.name, <<"#">>))

\* The markers the loop of add_markers creates: current_frame starts at
\* start_frame and grows by talking_frames / len(segments) per segment. The
\* fraction is kept exact, over the denominator len(segments); a float sum
\* can fall just short of a whole frame that the exact sum reaches.
placed_markers(segments, start_frame, talking_frames) ==
    [i \in 1..Len(segments) |->
        set_marker(segments[i],
                   start_frame * Len(segments) + (i - 1) * talking_frames,
                   Len(segments))]

\* The timeline add_markers leaves and the error it ends with. The division
\* by len(segments) comes after clear_markers.
add_markers(dlg, frame_margins, markers, scene_frame_end) ==
    LET start_frame == frame_margins
        last_frame == scene_frame_end - frame_margins
        talking_frames == last_frame - start_frame
        cleared == clear_markers(markers)
        segments == split_dialogue_to_segments(dlg, max_letters_default)
    IN IF Len(segments) = 0
       THEN [error |-> "ZeroDivisionError", markers |-> cleared]
       ELSE [error |-> "none",
             markers |-> cleared \o placed_markers(segments, start_frame, talking_frames)]

----------------------------------------------------------------------------
(* Subtitles and mouth keyframes *)

\* the collection once clear_collection('subtitles') has run
clear_collection(exists, objects) == IF exists THEN <<>> ELSE objects

\* The keyframes left by clear_mouth_keyframes: an f-curve is emptied when the
\* name of one of the '#' shape keys occurs in its data path.
clear_mouth_keyframes(blocks, frames) ==
    {k \in frames :
        ~\E i \in 1..Len(get_mouth_shape_keys(blocks)) :
            contains(k.key, get_mouth_shape_keys(blocks)[i])}

\* keyframe_insert for each event in turn: a keyframe replaces the one the
\* same shape key has at the same frame
RECURSIVE insert_keyframes(_, _)
insert_keyframes(frames, events) ==
    IF events = <<>> THEN frames
    ELSE insert_keyframes(
             {k \in frames : ~(k.key = Head(events).key /\ k.frame = Head(events).frame)}
                 \cup {Head(events)},
             Tail(events))

\* The loop over the segments of add_speech_to_markers from segment i on:
\* the subtitles and mouth keyframes it has made when it ends or raises.
\* The draw of random.choice is fixed to the first shape key: in the scene
\* every letter of a dialogue has one matching shape key, so there is no
\* other to draw. SpecShape and SpecWalk take every draw.
RECURSIVE speech_loop(_, _, _, _, _, _, _)
speech_loop(i, segments, markers, scene_frame_end, blocks, texts, events) ==
    IF i > Len(segments)
    THEN [error |-> "none", texts |-> texts, events |-> events]
    ELSE LET segment_start == markers[i].frame
             segment_end == IF i + 1 <= Len(markers) THEN markers[i + 1].frame
                            ELSE scene_frame_end
             spoken == speak_segment(segments[i], segment_start, segment_end, blocks,
                                     [j \in 1..Len(segments[i]) |-> 1])
         IN IF spoken.error # "none"
            THEN [error |-> spoken.error, texts |-> texts \o spoken.texts,
                  events |-> events \o spoken.events]
            ELSE speech_loop(i + 1, segments, markers, scene_frame_end, blocks,
                             texts \o spoken.texts, events \o spoken.events)

\* add_speech_to_markers with audio=False: what it leaves of the scene and
\* the error it ends with
add_speech_to_markers(dlg, all_markers, scene_frame_end, has_mouth, blocks, exists, texts, frames, space) ==
    LET markers == get_segment_markers(all_markers)
        segments == split_dialogue_to_segments(dlg, max_letters_default)
        unchanged == [has_collection |-> exists, subtitles |-> texts,
                      keyframes |-> frames, workspace |-> space]
        cleared == [has_collection |-> TRUE,
                    subtitles |-> clear_collection(exists, texts),
                    keyframes |-> clear_mouth_keyframes(blocks, frames),
                    workspace |-> space]
    IN IF ~has_mouth
       THEN [error |-> "ValueError"] @@ unchanged
       ELSE IF markers = <<>>
       THEN [error |-> "IndexError"] @@ cleared
       ELSE LET rested == insert_keyframes(cleared.keyframes,
                              set_rest_mouth(blocks, markers[1].frame - 1, 1))
            IN IF Len(markers) # Len(segments)
               THEN [error |-> "AssertionError", has_collection |-> TRUE,
                     subtitles |-> cleared.subtitles, keyframes |-> rested,
                     workspace |-> space]
               ELSE LET out == speech_loop(1, segments, markers, scene_frame_end,
                                           blocks, <<>>, <<>>)
                    IN [error |-> out.error, has_collection |-> TRUE,
                        subtitles |-> cleared.subtitles \o out.texts,
                        keyframes |-> insert_keyframes(rested, out.events),
                        workspace |-> IF out.error = "none" THEN "Layout" ELSE space]

----------------------------------------------------------------------------
(* The scene: the user edits the dialogue, the timeline and the markers, *)
(* and runs add_markers or add_speech_to_markers                          *)

Sentence == <<"a", "a", "a", "a", "a", ".">>
BlankLine == <<" ", " ", " ", " ", " ", "\n">>
Word == <<"a">>
Chunks == {Sentence, BlankLine, Word}

\* the dialogues made of up to MaxChunks phrases; the only letter is one
\* that a single shape key of SceneBlocks matches
Dialogues == {Concat(cs) : cs \in UNION {[1..k -> Chunks] : k \in 0..MaxChunks}}

SceneBlocks == <<Basis, KeyA>>
Note == <<"n">>

NoRun == [op |-> "none", error |-> "none"]

Ran(op, error) == [op |-> op, error |-> error]

Init ==
    /\ dialogue \in Dialogues
    /\ frame_end \in 1..MaxFrameEnd
    /\ timeline_markers = <<>>
    /\ mouth_exists = TRUE
    /\ key_blocks = SceneBlocks
    /\ has_collection = FALSE
    /\ subtitles = <<>>
    /\ keyframes = {}
    /\ workspace = "Scripting"
    /\ run = NoRun
    /\ edits = 0
    /\ args = [none |-> TRUE]
    /\ result = [called |-> FALSE]

EditDialogue ==
    /\ \E d \in Dialogues : d # dialogue /\ dialogue' = d
    /\ run' = NoRun
    /\ edits < MaxEdits
    /\ edits' = edits + 1
    /\ UNCHANGED << frame_end, timeline_markers, mouth_exists, key_blocks,
                    has_collection, subtitles, keyframes, workspace, args, result >>

SetFrameEnd ==
    /\ \E f \in 1..MaxFrameEnd : f # frame_end /\ frame_end' = f
    /\ run' = NoRun
    /\ edits < MaxEdits
    /\ edits' = edits + 1
    /\ UNCHANGED << dialogue, timeline_markers, mouth_exists, key_blocks,
                    has_collection, subtitles, keyframes, workspace, args, result >>

MoveMarker ==
    /\ \E i \in 1..Len(timeline_markers), f \in 0..MaxFrame :
          /\ f # timeline_markers[i].frame
          /\ timeline_markers' = [timeline_markers EXCEPT ![i].frame = f]
    /\ run' = NoRun
    /\ edits < MaxEdits
    /\ edits' = edits + 1
    /\ UNCHANGED << dialogue, frame_end, mouth_exists, key_blocks,
                    has_collection, subtitles, keyframes, workspace, args, result >>

DeleteMarker ==
    /\ \E i \in 1..Len(timeline_markers) :
          timeline_markers' = [j \in 1..(Len(timeline_markers) - 1) |->
                                  IF j < i THEN timeline_markers[j]
                                  ELSE timeline_markers[j + 1]]
    /\ run' = NoRun
    /\ edits < MaxEdits
    /\ edits' = edits + 1
    /\ UNCHANGED << dialogue, frame_end, mouth_exists, key_blocks,
                    has_collection, subtitles, keyframes, workspace, args, result >>

AddNoteMarker ==
    /\ \A i \in 1..Len(timeline_markers) : timeline_markers[i].name # Note
    /\ \E f \in 0..MaxFrame : timeline_markers' = Append(timeline_markers, Marker(Note, f))
    /\ run' = NoRun
    /\ edits < MaxEdits
    /\ edits' = edits + 1
    /\ UNCHANGED << dialogue, frame_end, mouth_exists, key_blocks,
                    has_collection, subtitles, keyframes, workspace, args, result >>

ToggleMouth ==
    /\ mouth_exists' = ~mouth_exists
    /\ run' = NoRun
    /\ edits < MaxEdits
    /\ edits' = edits + 1
    /\ UNCHANGED << dialogue, frame_end, timeline_markers, key_blocks,
                    has_collection, subtitles, keyframes, workspace, args, result >>

AddMarkers ==
    /\ \E frame_margins \in 0..MaxMargin :
          LET out == add_markers(dialogue, frame_margins, timeline_markers, frame_end)
          IN /\ timeline_markers' = out.markers
             /\ run' = Ran("add_markers", out.error)
    /\ UNCHANGED << dialogue, frame_end, mouth_exists, key_blocks,
                    has_collection, subtitles, keyframes, workspace, edits, args,
                    result >>

AddSpeechToMarkers ==
    /\ LET out == add_speech_to_markers(dialogue, timeline_markers, frame_end,
                                        mouth_exists, key_blocks, has_collection,
                                        subtitles, keyframes, workspace)
       IN /\ has_collection' = out.has_collection
          /\ subtitles' = out.subtitles
          /\ keyframes' = out.keyframes
          /\ workspace' = out.workspace
          /\ run' = Ran("add_speech_to_markers", out.error)
    /\ UNCHANGED << dialogue, frame_end, timeline_markers, mouth_exists, key_blocks,
                    edits, args, result >>

Next ==
    \/ EditDialogue
    \/ SetFrameEnd
    \/ MoveMarker
    \/ DeleteMarker
    \/ AddNoteMarker
    \/ ToggleMouth
    \/ AddMarkers
    \/ AddSpeechToMarkers

Spec == Init /\ [][Next]_vars

SceneSegments == split_dialogue_to_segments(dialogue, max_letters_default)

\* the speech markers are one per segment, named after it, in segment order
OneMarkerPerSegment(markers, segments) ==
    /\ Len(markers) = Len(segments)
    /\ \A i \in 1..Len(segments) : markers[i].name = <<"#">> \o segments[i]

\* C2: after add_markers the speech markers are one per segment of the
\* dialogue, in segment order, at strictly increasing frames
C2_OneMarkerPerSegmentIncreasing ==
    run.op = "add_markers" =>
        LET markers == get_segment_markers(timeline_markers)
        IN /\ OneMarkerPerSegment(markers, SceneSegments)
           /\ \A i \in 1..(Len(markers) - 1) : markers[i].frame < markers[i + 1].frame

\* C4: a run of add_speech_to_markers with no mouth object, or with a number
\* of speech markers other than the number of segments, raises and leaves the
\* subtitles and the mouth keyframes as they were
C4_FatalErrorChangesNothing ==
    [][(run'.op = "add_speech_to_markers"
          /\ (~mouth_exists
                \/ Len(get_segment_markers(timeline_markers)) # Len(SceneSegments)))
         => (/\ run'.error # "none"
             /\ subtitles' = subtitles
             /\ keyframes' = keyframes)]_vars

\* C5: a run of add_markers leaves either one speech marker per segment or
\* the speech markers it found, and never an emptied list in place of markers
\* it found
C5_MarkersAllOrNothing ==
    [][run'.op = "add_markers"
         => LET before == get_segment_markers(timeline_markers)
                after == get_segment_markers(timeline_markers')
            IN /\ OneMarkerPerSegment(after, SceneSegments) \/ after = before
               /\ ~(before # <<>> /\ after = <<>>)]_vars

====
